---- MODULE Spec2Model ----
(***************************************************************************)
(* Model of the GENIE spline builder gmkspl (src/stdapp/gMakeSplines.cxx)  *)
(* and of the diffractive cross section algorithm ReinDFRPXSec             *)
(* (src/ReinSehgal/ReinDFRPXSec.cxx), with the collaborators they call.    *)
(*                                                                         *)
(* Four specifications share the module:                                   *)
(*   Spec     one run of gmkspl's main, from argv to exit                  *)
(*   SpecAlg  the life of one ReinDFRPXSec instance                        *)
(*   SpecXSec XSec calls on a configured ReinDFRPXSec instance             *)
(*   SpecReg  sub-instance resolution in the algorithm registry            *)
(***************************************************************************)
EXTENDS Integers, Sequences, FiniteSets, TLC

(***************************************************************************)
(* Bounds of the model.                                                    *)
(***************************************************************************)
\* longest comma separated code list given on the command line
MaxCodes == 2
\* Configure calls made on one ReinDFRPXSec instance
MaxConfigure == 2
\* Integral calls made on one ReinDFRPXSec instance
MaxIntegral == 2
\* algorithm keys known to the registry
NumAlgKeys == 3
\* sub-instances one configuration names
MaxSubAlgs == 2

(***************************************************************************)
(* Program constants.                                                      *)
(***************************************************************************)
\* "15 knots per decade of energy range"
KnotsPerDecade == 15
\* "with a minimum of 30 knots totally"
KnotFloor == 30
\* int gOptNKnots = -1
kDefOptNKnots == -1
\* double gOptMaxE = -1.
kDefOptMaxE == -1
\* lower end of the spline energy range, and the validity ceiling of the
\* spline generating thread (both owned by the cross section model)
SplineEmin == 1
SplineEmaxDefault == 1000

kDefOptXMLFilename == "xsec_splines.xml"

(***************************************************************************)
(* Small helpers.                                                          *)
(***************************************************************************)
Max(a, b) == IF a >= b THEN a ELSE b

SeqsFromTo(S, lo, hi) == UNION {[1..k -> S] : k \in lo..hi}

RECURSIVE FilterSeq(_, _)
FilterSeq(s, S) ==
  IF s = <<>> THEN <<>>
  ELSE IF Head(s) \in S THEN <<Head(s)>> \o FilterSeq(Tail(s), S)
       ELSE FilterSeq(Tail(s), S)

\* number of whole decades between lo and hi
RECURSIVE Decades(_, _)
Decades(lo, hi) == IF hi < 10 * lo THEN 0 ELSE 1 + Decades(10 * lo, hi)

(***************************************************************************)
(* The command line.  An option is absent, found without a usable value    *)
(* (the parser throws with ArgumentFound() true), or found with a value.   *)
(* A code list string is the sequence of its comma separated items, each   *)
(* already read by atoi (0 for an item that is not a number); "" is <<>>.  *)
(***************************************************************************)
NuPdgCodes  == {14, -14}
TgtPdgCodes == {1056026000, 1016008000}
\* the codes the PDG library knows (target codes in the 1aaazzz000 format)
PdgLibrary  == NuPdgCodes \cup TgtPdgCodes

Absent  == [st |-> "absent"]
NoValue == [st |-> "novalue"]
Value(v) == [st |-> "value", val |-> v]

NuListArgs  == {Absent, NoValue} \cup
               {Value(s) : s \in SeqsFromTo(NuPdgCodes \cup {0}, 1, MaxCodes)}
TgtListArgs == {Absent, NoValue} \cup
               {Value(s) : s \in SeqsFromTo({1056026000, 0}, 1, MaxCodes)}
GeomFiles   == {"empty.root", "fe.root", "feo.root"}
GeomArgs    == {Absent, NoValue} \cup {Value(f) : f \in GeomFiles}
NKnotsArgs  == {Absent, Value(5), Value(40)}
MaxEArgs    == {Absent, Value(10)}
XmlArgs     == {Absent, Value("spl.xml")}

\* genie::utils::clap::CmdLineArgAsString / AsInt / AsDouble as their callers
\* see them: a value, or an exception that says whether the option was found
CmdLineArg(arg) ==
  IF arg.st = "value" THEN [thrown |-> FALSE, found |-> TRUE, val |-> arg.val]
  ELSE [thrown |-> TRUE, found |-> (arg.st = "novalue")]

\* try { opt = CmdLineArgAs...(argc,argv,c); }
\* catch(e) { if(!e.ArgumentFound()) opt = def; }
OptionalArg(arg, cur, def) ==
  LET r == CmdLineArg(arg)
  IN  IF ~r.thrown THEN r.val
      ELSE IF ~r.found THEN def ELSE cur

\* the required string arguments leave the global untouched on an exception
StringArg(arg, cur) ==
  LET r == CmdLineArg(arg) IN IF ~r.thrown THEN r.val ELSE cur

ArgNotFound(arg) == LET r == CmdLineArg(arg) IN r.thrown /\ ~r.found

\* bool tgt_cmd after the -t and the -f try blocks (lines 237-257)
TgtCmdFlag(t, f) ==
  LET afterT == IF ArgNotFound(t) THEN FALSE ELSE TRUE
  IN  IF ArgNotFound(f) THEN FALSE ELSE afterT

\* bool tgt_geom after the -f try block: it is set at line 248 and the catch
\* block at line 255 assigns tgt_cmd, so no path clears it
TgtGeomFlag(t, f) == TRUE

BothNoCheck(t, f) == FALSE
Both(t, f) == TgtGeomFlag(t, f) /\ TgtCmdFlag(t, f)
None(t, f) == ~TgtGeomFlag(t, f) /\ ~TgtCmdFlag(t, f)

(***************************************************************************)
(* PDGCodeList and the geometry collaborator.                              *)
(***************************************************************************)
NullList == [null |-> TRUE, codes |-> <<>>]
NewList(codes) == [null |-> FALSE, codes |-> codes]

\* PDGCodeList::push_back over the split items: a code the PDG library does
\* not know is not added
PushBackAll(items) == FilterSeq(items, PdgLibrary)

\* ROOTGeomAnalyzer::ListOfTargetNuclei
ListOfTargetNuclei(file) ==
  CASE file = "fe.root"  -> <<1056026000>>
    [] file = "feo.root" -> <<1056026000, 1016008000>>
    [] OTHER             -> <<>>

GetNeutrinoCodes(nuList) == NewList(PushBackAll(nuList))

FromCmdLine(tgtList)   == Len(tgtList) > 0
FromGeomFile(geomFile) == geomFile # ""

\* a GetTargetCodes whose last return hands out a new, empty list
GetTargetCodesNeverNull(tgtList, geomFile) ==
  IF FromCmdLine(tgtList) THEN NewList(PushBackAll(tgtList))
  ELSE IF FromGeomFile(geomFile) THEN NewList(ListOfTargetNuclei(geomFile))
  ELSE NewList(<<>>)
GetTargetCodes(tgtList, geomFile) ==
  IF FromCmdLine(tgtList) THEN NewList(PushBackAll(tgtList))
  ELSE IF FromGeomFile(geomFile) THEN NewList(ListOfTargetNuclei(geomFile))
  ELSE NullList

\* if(!list || list->size() == 0)
EmptyListNoSizeCheck(list) == list.null
EmptyList(list) == list.null \/ Len(list.codes) = 0

(***************************************************************************)
(* The spline list (XSecSplineList singleton) and GEVGDriver.              *)
(***************************************************************************)
Processes == {"CC", "NC"}

\* processes the loaded event generators can simulate for an initial state
ProcessesFor(nu, tgt) == Processes

ProcessKey(nu, tgt, proc) == <<nu, tgt, proc>>

KnotCountNoFloor(nknots, emax) ==
  LET top == IF emax > 0 THEN emax ELSE SplineEmaxDefault
  IN  IF nknots > 0 THEN nknots
      ELSE KnotsPerDecade * Decades(SplineEmin, top)
\* knots of a spline: the caller's count, or 15 per decade, never below 30
KnotCount(nknots, emax) ==
  LET top == IF emax > 0 THEN emax ELSE SplineEmaxDefault
      asked == IF nknots > 0 THEN nknots
               ELSE KnotsPerDecade * Decades(SplineEmin, top)
  IN  Max(asked, KnotFloor)

SplineExistsNever(xsl, key) == FALSE
SplineExists(xsl, key) == key \in DOMAIN xsl

\* XSecSplineList::CreateSpline: one Integral evaluation per knot
CreateSpline(nknots, emax) ==
  [nknots |-> KnotCount(nknots, emax),
   emax   |-> IF emax > 0 THEN emax ELSE SplineEmaxDefault]

\* GEVGDriver::CreateSplines for the configured initial state: the keys to build
KeysToBuild(xsl, nu, tgt) ==
  {k \in {ProcessKey(nu, tgt, p) : p \in ProcessesFor(nu, tgt)} :
      ~SplineExists(xsl, k)}

(***************************************************************************)
(* State.                                                                  *)
(***************************************************************************)
VARIABLES
  \* gmkspl
  argv,                 \* the command line, one entry per option
  pc,                   \* where main is
  gOptNuPdgCodeList, gOptTgtPdgCodeList, gOptGeomFilename,
  gOptXMLFilename, gOptNKnots, gOptMaxE,
  neutrinos, targets,   \* the two PDGCodeList pointers of main
  nuiter, tgtiter,      \* positions of the two loop iterators
  calls,                \* GEVGDriver / XSecSplineList calls made, in order
  fatal,                \* pFATAL messages logged, in order
  exitStatus,           \* -1 while running, else the process exit status
  geomOpened,           \* a ROOTGeomAnalyzer was created
  splineList,           \* XSecSplineList: ProcessKey -> spline
  nEvaluate             \* ProcessKey -> evaluations of the algorithm made for it

VARIABLES
  \* ReinDFRPXSec and the configuration pool
  gc,                   \* AlgConfigPool::GlobalParameterList()
  ndebug,               \* the build defines NDEBUG: assert() is compiled out
  algState,             \* "unborn", "ready", or how the process ended
  fConfig,              \* Algorithm::fConfig, the registry of the instance
  fMa, fBeta,           \* the two model parameters
  fXSecIntegrator,      \* "wild" (never assigned), "null", or an instance
  nConfigure,           \* Configure calls made
  nSubAlg,              \* SubAlg("XSec-Integrator") calls made
  nIntegral,            \* Integral calls made
  lastLoad,             \* how the last LoadConfig ended
  lastIntegral,         \* how the last Integral call ended
  lastXSec              \* the last XSec call: its interaction and its result

algVars == <<gc, ndebug, algState, fConfig, fMa, fBeta, fXSecIntegrator,
             nConfigure, nSubAlg, nIntegral, lastLoad, lastIntegral, lastXSec>>

VARIABLES
  \* the algorithm registry
  depGraph,             \* AlgorithmKey -> the keys its configuration names as
                        \* sub-instances
  resolveStack,         \* the resolve calls in progress, innermost last
  inProgress,           \* the keys that carry the in-progress marker
  instanceCache,        \* the keys whose wired instance is cached
  regStatus,            \* "idle", "resolving", "done" or "CyclicDependency"
  regSteps              \* steps taken by the request

regVars == <<depGraph, resolveStack, inProgress, instanceCache, regStatus,
             regSteps>>

drvVars == <<argv, pc, gOptNuPdgCodeList, gOptTgtPdgCodeList, gOptGeomFilename,
             gOptXMLFilename, gOptNKnots, gOptMaxE, neutrinos, targets,
             nuiter, tgtiter, calls, fatal, exitStatus, geomOpened,
             splineList, nEvaluate>>

vars == <<drvVars, algVars, regVars>>

nonDrvVars == <<algVars, regVars>>
nonAlgVars == <<drvVars, regVars>>
nonRegVars == <<drvVars, algVars>>

EmptyFcn == [k \in {} |-> 0]

InitDrv ==
  /\ argv \in [p : NuListArgs, t : TgtListArgs, f : GeomArgs,
               n : NKnotsArgs, e : MaxEArgs, o : XmlArgs]
  /\ pc = "start"
  /\ gOptNuPdgCodeList = <<>>
  /\ gOptTgtPdgCodeList = <<>>
  /\ gOptGeomFilename = ""
  /\ gOptXMLFilename = ""
  /\ gOptNKnots = kDefOptNKnots
  /\ gOptMaxE = kDefOptMaxE
  /\ neutrinos = NullList
  /\ targets = NullList
  /\ nuiter = 0
  /\ tgtiter = 0
  /\ calls = <<>>
  /\ fatal = <<>>
  /\ exitStatus = -1
  /\ geomOpened = FALSE
  /\ splineList = EmptyFcn
  /\ nEvaluate = EmptyFcn

\* exit(status) after LOG(pFATAL) << msg
Exit(status, msg) ==
  /\ pc' = "exit"
  /\ exitStatus' = status
  /\ fatal' = Append(fatal, msg)

(***************************************************************************)
(* GetCommandLineArgs, lines 177-276.                                      *)
(***************************************************************************)
GetCommandLineArgs ==
  /\ pc = "start"
  /\ UNCHANGED nonDrvVars
  /\ gOptXMLFilename' = OptionalArg(argv.o, gOptXMLFilename, kDefOptXMLFilename)
  /\ gOptNKnots' = OptionalArg(argv.n, gOptNKnots, kDefOptNKnots)
  /\ gOptMaxE' = OptionalArg(argv.e, gOptMaxE, kDefOptMaxE)
  /\ IF ArgNotFound(argv.p)
     THEN /\ Exit(1, "Unspecified neutrino PDG code list - Exiting")
          /\ UNCHANGED <<gOptNuPdgCodeList, gOptTgtPdgCodeList, gOptGeomFilename>>
     ELSE /\ gOptNuPdgCodeList' = StringArg(argv.p, gOptNuPdgCodeList)
          /\ gOptTgtPdgCodeList' = StringArg(argv.t, gOptTgtPdgCodeList)
          /\ gOptGeomFilename' = StringArg(argv.f, gOptGeomFilename)
          /\ IF None(argv.t, argv.f)
             THEN Exit(1, "No geom file or cmd line target list was specified - Exiting")
             ELSE IF Both(argv.t, argv.f)
             THEN Exit(1, "You specified both a geom file and a cmd line target list - Exiting confused")
             ELSE /\ pc' = "codes"
                  /\ UNCHANGED <<exitStatus, fatal>>
  /\ UNCHANGED <<argv, neutrinos, targets, nuiter, tgtiter, calls, geomOpened,
                 splineList, nEvaluate>>

(***************************************************************************)
(* main, lines 125-126: the two code lists.                                *)
(***************************************************************************)
GetCodes ==
  /\ pc = "codes"
  /\ UNCHANGED nonDrvVars
  /\ neutrinos' = GetNeutrinoCodes(gOptNuPdgCodeList)
  /\ targets' = GetTargetCodes(gOptTgtPdgCodeList, gOptGeomFilename)
  /\ geomOpened' = (~FromCmdLine(gOptTgtPdgCodeList) /\ FromGeomFile(gOptGeomFilename))
  /\ pc' = "check"
  /\ UNCHANGED <<argv, gOptNuPdgCodeList, gOptTgtPdgCodeList, gOptGeomFilename,
                 gOptXMLFilename, gOptNKnots, gOptMaxE, nuiter, tgtiter, calls,
                 fatal, exitStatus, splineList, nEvaluate>>

\* where the two for loops of lines 149-150 start: an empty range runs no body
LoopEntry(nNu, nTgt) == IF nNu = 0 \/ nTgt = 0 THEN "save" ELSE "configure"

(***************************************************************************)
(* main, lines 128-150: the empty list checks and the loop entry.          *)
(***************************************************************************)
CheckLists ==
  /\ pc = "check"
  /\ UNCHANGED nonDrvVars
  /\ IF EmptyList(neutrinos)
     THEN /\ Exit(2, "Empty neutrino PDG code list")
          /\ UNCHANGED <<nuiter, tgtiter>>
     ELSE IF EmptyList(targets)
     THEN /\ Exit(3, "Empty target PDG code list")
          /\ UNCHANGED <<nuiter, tgtiter>>
     ELSE /\ pc' = LoopEntry(Len(neutrinos.codes), Len(targets.codes))
          /\ nuiter' = 1
          /\ tgtiter' = 1
          /\ UNCHANGED <<exitStatus, fatal>>
  /\ UNCHANGED <<argv, gOptNuPdgCodeList, gOptTgtPdgCodeList, gOptGeomFilename,
                 gOptXMLFilename, gOptNKnots, gOptMaxE, neutrinos, targets, calls,
                 geomOpened, splineList, nEvaluate>>

(***************************************************************************)
(* main, lines 152-159: InitialState, GEVGDriver, driver.Configure.        *)
(***************************************************************************)
Configure ==
  /\ pc = "configure"
  /\ UNCHANGED nonDrvVars
  /\ calls' = Append(calls, <<"Configure", neutrinos.codes[nuiter],
                              targets.codes[tgtiter]>>)
  /\ pc' = "create"
  /\ UNCHANGED <<argv, gOptNuPdgCodeList, gOptTgtPdgCodeList, gOptGeomFilename,
                 gOptXMLFilename, gOptNKnots, gOptMaxE, neutrinos, targets,
                 nuiter, tgtiter, fatal, exitStatus, geomOpened, splineList,
                 nEvaluate>>

\* ++tgtiter; at targets->end() the inner loop ends: ++nuiter, tgtiter = begin
NextPairTargetOnly(i, j, nNu, nTgt) ==
  IF j < nTgt THEN <<i, j + 1>> ELSE <<nNu + 1, 1>>
NextPair(i, j, nNu, nTgt) ==
  IF j < nTgt THEN <<i, j + 1>> ELSE <<i + 1, 1>>

\* nuiter != neutrinos->end()
AfterPairSaveAlways(i, nNu) == "save"
AfterPair(i, nNu) == IF i <= nNu THEN "configure" ELSE "save"

(***************************************************************************)
(* main, line 160 and the loop steps: driver.CreateSplines.                *)
(***************************************************************************)
CreateSplines ==
  /\ pc = "create"
  /\ UNCHANGED nonDrvVars
  /\ LET nu   == neutrinos.codes[nuiter]
         tgt  == targets.codes[tgtiter]
         new  == KeysToBuild(splineList, nu, tgt)
         keys == DOMAIN splineList \cup new
         nxt  == NextPair(nuiter, tgtiter, Len(neutrinos.codes), Len(targets.codes))
     IN  /\ calls' = Append(calls, <<"CreateSplines", nu, tgt>>)
         /\ splineList' = [k \in keys |->
                             IF k \in new THEN CreateSpline(gOptNKnots, gOptMaxE)
                             ELSE splineList[k]]
         /\ nEvaluate' = [k \in keys |->
                            (IF k \in DOMAIN nEvaluate THEN nEvaluate[k] ELSE 0)
                            + (IF k \in new
                               THEN CreateSpline(gOptNKnots, gOptMaxE).nknots
                               ELSE 0)]
         /\ nuiter' = nxt[1]
         /\ tgtiter' = nxt[2]
         /\ pc' = AfterPair(nxt[1], Len(neutrinos.codes))
  /\ UNCHANGED <<argv, gOptNuPdgCodeList, gOptTgtPdgCodeList, gOptGeomFilename,
                 gOptXMLFilename, gOptNKnots, gOptMaxE, neutrinos, targets,
                 fatal, exitStatus, geomOpened>>

(***************************************************************************)
(* main, lines 167-174: SaveAsXml and return 0.                            *)
(***************************************************************************)
SaveAsXml ==
  /\ pc = "save"
  /\ UNCHANGED nonDrvVars
  /\ calls' = Append(calls, <<"SaveAsXml", gOptXMLFilename, DOMAIN splineList>>)
  /\ pc' = "exit"
  /\ exitStatus' = 0
  /\ UNCHANGED <<argv, gOptNuPdgCodeList, gOptTgtPdgCodeList, gOptGeomFilename,
                 gOptXMLFilename, gOptNKnots, gOptMaxE, neutrinos, targets,
                 nuiter, tgtiter, fatal, geomOpened, splineList, nEvaluate>>

(***************************************************************************)
(* ReinDFRPXSec: registries.  A registry holds typed entries: dbl maps the *)
(* keys of its double entries to their values, alg the keys of its         *)
(* algorithm entries to the algorithm they name.                           *)
(***************************************************************************)
IntegratorAlgs == {"genie::DFRXSec"}
OtherAlgs      == {"genie::ReinSehgalCOHPiPXSec"}

\* the functions from a subset of the keys to a value allowed for each key
EntriesOver(keyVals) ==
  LET all == UNION {keyVals[k] : k \in DOMAIN keyVals}
  IN  {f \in UNION {[D -> all] : D \in SUBSET DOMAIN keyVals} :
         \A k \in DOMAIN f : f[k] \in keyVals[k]}

NoEntries == [k \in {} |-> 0]
EmptyRegistry == [dbl |-> NoEntries, alg |-> NoEntries]

\* the registries an instance can be configured with
ScopedRegistries ==
  {[dbl |-> d, alg |-> a] :
     d \in EntriesOver([k \in {"Ma", "beta"} |-> IF k = "Ma" THEN {1} ELSE {3}]),
     a \in EntriesOver([k \in {"XSec-Integrator"} |->
                          IntegratorAlgs \cup OtherAlgs])}

\* the global parameter lists the pool can hold
GlobalRegistries ==
  {[dbl |-> d, alg |-> NoEntries] :
     d \in EntriesOver([k \in {"DFR-Ma", "DFR-Beta"} |->
                          IF k = "DFR-Ma" THEN {2} ELSE {4}])}

\* AlgConfigPool: the named configurations of genie::ReinDFRPXSec
ConfigNames == {"Default", "NoParams"}
FindRegistry(name) ==
  IF name = "Default"
  THEN [dbl |-> [k \in {"Ma", "beta"} |-> IF k = "Ma" THEN 1 ELSE 3],
        alg |-> [k \in {"XSec-Integrator"} |-> "genie::DFRXSec"]]
  ELSE [dbl |-> NoEntries,
        alg |-> [k \in {"XSec-Integrator"} |-> "genie::DFRXSec"]]

\* values an unassigned double member can hold
GarbageDoubles == {0, 1}

\* Registry::GetDouble: the value, or the failure of a key that is not there
GetDouble(reg, key) ==
  IF key \in DOMAIN reg.dbl THEN [ok |-> TRUE, val |-> reg.dbl[key]]
  ELSE [ok |-> FALSE, val |-> 0]

\* Registry::GetDoubleDef: the value, or the default handed in
GetDoubleDef(reg, key, def) ==
  IF key \in DOMAIN reg.dbl THEN reg.dbl[key] ELSE def

\* fConfig->GetDoubleDef(key, gc->GetDouble(gkey)): the default is an argument,
\* so the global lookup is made first, whatever the scoped registry holds
ScopedOrGlobal(cfg, key, glob, gkey) ==
  LET def == GetDouble(glob, gkey)
  IN  IF ~def.ok THEN [ok |-> FALSE, val |-> 0]
      ELSE [ok |-> TRUE, val |-> GetDoubleDef(cfg, key, def.val)]

\* Algorithm::SubAlg(key): the instance the registry names under the key
SubAlg(cfg, key) ==
  IF key \in DOMAIN cfg.alg THEN [ok |-> TRUE, alg |-> cfg.alg[key]]
  ELSE [ok |-> FALSE, alg |-> "none"]

\* dynamic_cast<const XSecIntegratorI *>
CastToIntegrator(alg) == IF alg \in IntegratorAlgs THEN alg ELSE "null"

(***************************************************************************)
(* ReinDFRPXSec::LoadConfig, lines 149-160, as the new values of the       *)
(* members, of the state, and the number of SubAlg calls made.             *)
(***************************************************************************)
LoadConfig(cfg, glob, noAssert, ma, beta, integ) ==
  LET rMa   == ScopedOrGlobal(cfg, "Ma", glob, "DFR-Ma")
      rBeta == ScopedOrGlobal(cfg, "beta", glob, "DFR-Beta")
      sub   == SubAlg(cfg, "XSec-Integrator")
      ptr   == CastToIntegrator(sub.alg)
  IN  IF ~rMa.ok
      THEN [state |-> "ConfigMissing", load |-> "param-missing", fMa |-> ma,
            fBeta |-> beta, integ |-> integ, subalg |-> 0]
      ELSE IF ~rBeta.ok
      THEN [state |-> "ConfigMissing", load |-> "param-missing", fMa |-> rMa.val,
            fBeta |-> beta, integ |-> integ, subalg |-> 0]
      ELSE IF ~sub.ok
      THEN [state |-> "ConfigMissing", load |-> "subalg-missing", fMa |-> rMa.val,
            fBeta |-> rBeta.val, integ |-> integ, subalg |-> 1]
      ELSE IF ptr = "null" /\ ~noAssert
      THEN [state |-> "abort", load |-> "assert", fMa |-> rMa.val,
            fBeta |-> rBeta.val, integ |-> ptr, subalg |-> 1]
      ELSE [state |-> "ready", load |-> "ok", fMa |-> rMa.val,
            fBeta |-> rBeta.val, integ |-> ptr, subalg |-> 1]

AlgIdle ==
  /\ gc = EmptyRegistry
  /\ ndebug = FALSE
  /\ algState = "unborn"
  /\ fConfig = EmptyRegistry
  /\ fMa = 0
  /\ fBeta = 0
  /\ fXSecIntegrator = "none"
  /\ nConfigure = 0
  /\ nSubAlg = 0
  /\ nIntegral = 0
  /\ lastLoad = "none"
  /\ lastIntegral = "none"
  /\ lastXSec = [called |-> FALSE]

RegIdle ==
  /\ depGraph = [k \in {} |-> {}]
  /\ resolveStack = <<>>
  /\ inProgress = {}
  /\ instanceCache = {}
  /\ regStatus = "idle"
  /\ regSteps = 0

DrvIdle ==
  /\ argv = [p |-> Absent, t |-> Absent, f |-> Absent,
             n |-> Absent, e |-> Absent, o |-> Absent]
  /\ pc = "idle"
  /\ gOptNuPdgCodeList = <<>>
  /\ gOptTgtPdgCodeList = <<>>
  /\ gOptGeomFilename = ""
  /\ gOptXMLFilename = ""
  /\ gOptNKnots = kDefOptNKnots
  /\ gOptMaxE = kDefOptMaxE
  /\ neutrinos = NullList
  /\ targets = NullList
  /\ nuiter = 0
  /\ tgtiter = 0
  /\ calls = <<>>
  /\ fatal = <<>>
  /\ exitStatus = -1
  /\ geomOpened = FALSE
  /\ splineList = EmptyFcn
  /\ nEvaluate = EmptyFcn

InitAlg ==
  /\ DrvIdle
  /\ RegIdle
  /\ gc \in GlobalRegistries
  /\ ndebug \in BOOLEAN
  /\ algState = "unborn"
  /\ fConfig = EmptyRegistry
  /\ fMa = 0
  /\ fBeta = 0
  /\ fXSecIntegrator = "none"
  /\ nConfigure = 0
  /\ nSubAlg = 0
  /\ nIntegral = 0
  /\ lastLoad = "none"
  /\ lastIntegral = "none"
  /\ lastXSec = [called |-> FALSE]

\* a constructor that resolves the integrator itself
ConstructResolving ==
  /\ algState = "unborn"
  /\ algState' = "ready"
  /\ fXSecIntegrator' = "genie::DFRXSec"
  /\ nSubAlg' = nSubAlg + 1
  /\ fConfig' = FindRegistry("Default")
  /\ \E ma \in GarbageDoubles, beta \in GarbageDoubles : fMa' = ma /\ fBeta' = beta
  /\ UNCHANGED <<gc, ndebug, nConfigure, nIntegral, lastLoad, lastIntegral,
                 lastXSec>>
  /\ UNCHANGED nonAlgVars
(***************************************************************************)
(* The two constructors, lines 38-48: the bodies are empty, so fMa, fBeta  *)
(* and fXSecIntegrator are left unassigned; the second one has the base    *)
(* class look its registry up in the pool.                                 *)
(***************************************************************************)
Construct ==
  /\ algState = "unborn"
  /\ algState' = "ready"
  /\ fXSecIntegrator' = "wild"
  /\ \E ma \in GarbageDoubles, beta \in GarbageDoubles : fMa' = ma /\ fBeta' = beta
  /\ \/ fConfig' = EmptyRegistry
     \/ \E name \in ConfigNames : fConfig' = FindRegistry(name)
  /\ UNCHANGED <<gc, ndebug, nConfigure, nSubAlg, nIntegral, lastLoad,
                 lastIntegral, lastXSec>>
  /\ UNCHANGED nonAlgVars

\* Algorithm::Configure(cfg); this->LoadConfig();
ConfigureWith(cfg) ==
  LET r == LoadConfig(cfg, gc, ndebug, fMa, fBeta, fXSecIntegrator)
  IN  /\ fConfig' = cfg
      /\ algState' = r.state
      /\ lastLoad' = r.load
      /\ fMa' = r.fMa
      /\ fBeta' = r.fBeta
      /\ fXSecIntegrator' = r.integ
      /\ nSubAlg' = nSubAlg + r.subalg
      /\ nConfigure' = nConfigure + 1
      /\ UNCHANGED <<gc, ndebug, nIntegral, lastIntegral, lastXSec>>
      /\ UNCHANGED nonAlgVars

\* ReinDFRPXSec::Configure(const Registry & config), lines 137-141
ConfigureRegistry ==
  /\ algState = "ready"
  /\ nConfigure < MaxConfigure
  /\ \E cfg \in ScopedRegistries : ConfigureWith(cfg)

\* ReinDFRPXSec::Configure(string config), lines 143-147
ConfigureString ==
  /\ algState = "ready"
  /\ nConfigure < MaxConfigure
  /\ \E name \in ConfigNames : ConfigureWith(FindRegistry(name))

\* ReinDFRPXSec::Integral, lines 123-127.  Through a pointer that was never
\* assigned, or a null one, the call is undefined: the process crashes or the
\* call returns garbage.
Integral ==
  /\ algState = "ready"
  /\ nIntegral < MaxIntegral
  /\ nIntegral' = nIntegral + 1
  /\ IF fXSecIntegrator \in IntegratorAlgs
     THEN /\ lastIntegral' = "integrated"
          /\ UNCHANGED algState
     ELSE \/ /\ lastIntegral' = "crash"
             /\ algState' = "crash"
          \/ /\ lastIntegral' = "garbage"
             /\ UNCHANGED algState
  /\ UNCHANGED <<gc, ndebug, fConfig, fMa, fBeta, fXSecIntegrator, nConfigure,
                 nSubAlg, lastLoad, lastXSec>>
  /\ UNCHANGED nonAlgVars

NextAlg ==
  \/ Construct
  \/ ConfigureRegistry
  \/ ConfigureString
  \/ Integral

SpecAlg == InitAlg /\ [][NextAlg]_vars


(***************************************************************************)
(* ReinDFRPXSec::XSec.  An interaction is the part of it XSec reads: the   *)
(* skip-process-check and free-nucleon bits, whether the process is        *)
(* diffractive, what ValidKinematics answers, the inelasticity y in halves *)
(* (y2 = 2y), and the number of scattering centres of the target.          *)
(***************************************************************************)
Interactions ==
  [skipProcessChk : BOOLEAN, diffractive : BOOLEAN, validKinematics : BOOLEAN,
   y2 : {0, 1, 2}, freeNucleon : BOOLEAN, nNucl : {0, 26}]

\* ReinDFRPXSec::ValidProcess, lines 129-135
ValidProcessAlways(ia) == TRUE
\* a ValidProcess without the kISkipProcessChk test
ValidProcessNoSkipBit(ia) == ia.diffractive
ValidProcess(ia) ==
  IF ia.skipProcessChk THEN TRUE
  ELSE IF ia.diffractive THEN TRUE
  ELSE FALSE

\* lines 61-120 at E = 1, x > 0, divided by the factors that are positive
\* for every input (Gf, fp2, exp(-b t), the Jacobian): twice E (1 - y), times
\* the propagator term, which is zero exactly when Ma is, times the pi N
\* cross section squared, which is zero exactly when the pion energy y E is,
\* times the scattering centres unless the free nucleon bit is set
XSecFormula(ia, ma) ==
  LET oneMinusY2 == 2 - ia.y2
      sTot2      == IF ia.y2 > 0 THEN 1 ELSE 0
      propg      == IF ma # 0 THEN 1 ELSE 0
      xsec       == oneMinusY2 * propg * sTot2
  IN  IF ia.freeNucleon THEN xsec ELSE xsec * ia.nNucl

\* ReinDFRPXSec::XSec, lines 55-121: what the caller gets back
XSec(ia, ma) ==
  IF ~ValidProcess(ia)
  THEN [outcome |-> "returned", evaluated |-> FALSE, value |-> 0]
  ELSE IF ~ia.validKinematics
  THEN [outcome |-> "returned", evaluated |-> FALSE, value |-> 0]
  ELSE [outcome |-> "returned", evaluated |-> TRUE, value |-> XSecFormula(ia, ma)]

\* an instance after its constructor and one Configure that went through
InitXSec ==
  /\ DrvIdle
  /\ RegIdle
  /\ gc \in GlobalRegistries
  /\ ndebug \in BOOLEAN
  /\ fConfig \in ScopedRegistries
  /\ LET r == LoadConfig(fConfig, gc, ndebug, 0, 0, "wild")
     IN  /\ r.state = "ready"
         /\ algState = r.state
         /\ lastLoad = r.load
         /\ fMa = r.fMa
         /\ fBeta = r.fBeta
         /\ fXSecIntegrator = r.integ
         /\ nSubAlg = r.subalg
  /\ nConfigure = 1
  /\ nIntegral = 0
  /\ lastIntegral = "none"
  /\ lastXSec = [called |-> FALSE]

CallXSec ==
  /\ algState = "ready"
  /\ \E ia \in Interactions :
       lastXSec' = [called |-> TRUE, ia |-> ia,
                    validProcess |-> ValidProcess(ia),
                    result |-> XSec(ia, fMa)]
  /\ UNCHANGED <<gc, ndebug, algState, fConfig, fMa, fBeta, fXSecIntegrator,
                 nConfigure, nSubAlg, nIntegral, lastLoad, lastIntegral>>
  /\ UNCHANGED nonAlgVars

NextXSec == CallXSec

SpecXSec == InitXSec /\ [][NextXSec]_vars


(***************************************************************************)
(* AlgorithmRegistry.resolve: an instance is constructed, bound to its     *)
(* configuration, has its named sub-instances resolved (each a recursive   *)
(* resolve), and is then cached.  A key carries an in-progress marker from *)
(* the start of its resolve to its end.                                    *)
(***************************************************************************)
AlgKeys == 1..NumAlgKeys
RootKey == 1

DepGraphs ==
  [AlgKeys -> {D \in SUBSET AlgKeys : Cardinality(D) <= MaxSubAlgs}]

InitReg ==
  /\ DrvIdle
  /\ AlgIdle
  /\ depGraph \in DepGraphs
  /\ resolveStack = <<>>
  /\ inProgress = {}
  /\ instanceCache = {}
  /\ regStatus = "idle"
  /\ regSteps = 0

Frame(key) == [key |-> key, todo |-> depGraph[key]]

Min(S) == CHOOSE x \in S : \A y \in S : x <= y

\* the chain revisits a key whose resolve has not ended
RevisitUnchecked(key, marks) == FALSE
Revisit(key, marks) == key \in marks

\* resolve(RootKey) is called: nothing is cached yet
BeginResolve ==
  /\ regStatus = "idle"
  /\ regStatus' = "resolving"
  /\ resolveStack' = <<Frame(RootKey)>>
  /\ inProgress' = {RootKey}
  /\ regSteps' = regSteps + 1
  /\ UNCHANGED <<depGraph, instanceCache>>
  /\ UNCHANGED nonRegVars

\* the innermost resolve turns to its next sub-instance: a cached instance is
\* taken as is, a key in progress is a cycle, any other key starts a resolve
ResolveSubInstance ==
  /\ regStatus = "resolving"
  /\ resolveStack # <<>>
  /\ LET n   == Len(resolveStack)
         top == resolveStack[n]
     IN  /\ top.todo # {}
         /\ LET sub  == Min(top.todo)
                rest == [resolveStack EXCEPT ![n].todo = top.todo \ {sub}]
            IN  IF sub \in instanceCache
                THEN /\ resolveStack' = rest
                     /\ UNCHANGED <<inProgress, regStatus>>
                ELSE IF Revisit(sub, inProgress)
                THEN /\ regStatus' = "CyclicDependency"
                     /\ resolveStack' = <<>>
                     /\ inProgress' = {}
                ELSE /\ resolveStack' = Append(rest, Frame(sub))
                     /\ inProgress' = inProgress \cup {sub}
                     /\ UNCHANGED regStatus
  /\ regSteps' = regSteps + 1
  /\ UNCHANGED <<depGraph, instanceCache>>
  /\ UNCHANGED nonRegVars

\* the innermost resolve has all its sub-instances: the instance is cached
FinishResolve ==
  /\ regStatus = "resolving"
  /\ resolveStack # <<>>
  /\ LET n   == Len(resolveStack)
         top == resolveStack[n]
     IN  /\ top.todo = {}
         /\ resolveStack' = SubSeq(resolveStack, 1, n - 1)
         /\ inProgress' = inProgress \ {top.key}
         /\ instanceCache' = instanceCache \cup {top.key}
         /\ regStatus' = IF n = 1 THEN "done" ELSE "resolving"
  /\ regSteps' = regSteps + 1
  /\ UNCHANGED depGraph
  /\ UNCHANGED nonRegVars

NextReg ==
  \/ BeginResolve
  \/ ResolveSubInstance
  \/ FinishResolve

SpecReg == InitReg /\ [][NextReg]_vars


Init == InitDrv /\ AlgIdle /\ RegIdle

Next ==
  \/ GetCommandLineArgs
  \/ GetCodes
  \/ CheckLists
  \/ Configure
  \/ CreateSplines
  \/ SaveAsXml

Spec == Init /\ [][Next]_vars

(***************************************************************************)
(* Properties of gmkspl (specification Spec).                              *)
(***************************************************************************)
MissingOrEmpty(list) == list.null \/ list.codes = <<>>

CallsNamed(name) == SelectSeq(calls, LAMBDA c : c[1] = name)
DriverCalls == SelectSeq(calls, LAMBDA c : c[1] # "SaveAsXml")
SaveCount == Len(CallsNamed("SaveAsXml"))

\* C1: once main is past its list checks with the probe list or the target
\* list missing or empty, the process has exited with a non-zero status, a
\* fatal message is logged, and no Configure, CreateSplines or SaveAsXml call
\* was made.
C1_EmptyListIsFatal ==
  (pc \notin {"start", "codes", "check"}
     /\ (MissingOrEmpty(neutrinos) \/ MissingOrEmpty(targets)))
  => /\ pc = "exit"
     /\ exitStatus \in {1, 2, 3}
     /\ fatal # <<>>
     /\ calls = <<>>

C1_Witness ==
  /\ pc = "exit"
  /\ exitStatus = 3
  /\ ~neutrinos.null /\ neutrinos.codes # <<>>
  /\ ~targets.null /\ targets.codes = <<>>
  /\ calls = <<>>

\* C2: spline building is reached only when exactly one of -t and -f is
\* supplied; with neither or both the run ends in a fatal error with a
\* non-zero status and never builds a spline.  "Supplied" is read both as
\* "found on the command line" and as "found with a value".
C2_OneTargetSource ==
  \A withValue \in BOOLEAN :
    LET sup(a) == IF withValue THEN a.st = "value" ELSE a.st # "absent"
        t == sup(argv.t)
        f == sup(argv.f)
    IN  /\ (calls # <<>>) => (t # f)
        /\ (t = f) => /\ pc \in {"start", "codes", "check", "exit"}
                      /\ splineList = EmptyFcn
                      /\ pc = "exit" => (exitStatus \in {1, 2, 3} /\ fatal # <<>>)

C2_Witness ==
  /\ argv.t = Absent /\ argv.f = Absent
  /\ argv.p = Value(<<14>>)
  /\ pc = "exit" /\ exitStatus # 0 /\ calls = <<>>

\* the (probe, target) pairs in probe-major list order
PairSeq(nus, tgts) ==
  [k \in 1..(Len(nus) * Len(tgts)) |->
     <<nus[((k - 1) \div Len(tgts)) + 1], tgts[((k - 1) % Len(tgts)) + 1]>>]

ExpectedCalls(nus, tgts) ==
  LET pairs == PairSeq(nus, tgts)
  IN  [k \in 1..(2 * Len(pairs)) |->
         IF k % 2 = 1
         THEN <<"Configure", pairs[(k + 1) \div 2][1], pairs[(k + 1) \div 2][2]>>
         ELSE <<"CreateSplines", pairs[k \div 2][1], pairs[k \div 2][2]>>]

\* C3: the driver calls made so far are a prefix of Configure(p,t),
\* CreateSplines(p,t) over the pairs in probe-major list order, and when the
\* loops are over every pair was configured once and then built once, so
\* CreateSplines was called |probes| x |targets| times.
C3_OneConfigureOneCreatePerPair ==
  LET want == ExpectedCalls(neutrinos.codes, targets.codes)
      got  == DriverCalls
  IN  /\ Len(got) <= Len(want)
      /\ \A k \in 1..Len(got) : got[k] = want[k]
      /\ (pc = "save" \/ exitStatus = 0) =>
           /\ got = want
           /\ Len(CallsNamed("CreateSplines"))
                = Len(neutrinos.codes) * Len(targets.codes)
           /\ Len(CallsNamed("Configure"))
                = Len(neutrinos.codes) * Len(targets.codes)

C3_Witness ==
  /\ exitStatus = 0
  /\ neutrinos.codes = <<14, -14>>
  /\ targets.codes = <<1056026000>>
  /\ Len(CallsNamed("CreateSplines")) = 2

\* C4: SaveAsXml is called at most once; a run that returns 0 called it
\* exactly once; when it was called it is the last call and follows the
\* CreateSplines of the last pair, all pairs being done; a run that exits
\* with a fatal error never called it.
C4_SaveOnceAfterLastPair ==
  LET n == Len(neutrinos.codes)
      m == Len(targets.codes)
  IN  /\ SaveCount <= 1
      /\ exitStatus = 0 => SaveCount = 1
      /\ exitStatus > 0 => SaveCount = 0
      /\ SaveCount = 1 =>
           /\ n * m > 0
           /\ Len(calls) = 2 * n * m + 1
           /\ calls[Len(calls)][1] = "SaveAsXml"
           /\ calls[Len(calls) - 1]
                = <<"CreateSplines", neutrinos.codes[n], targets.codes[m]>>

C4_Witness ==
  /\ exitStatus = 0
  /\ SaveCount = 1
  /\ Len(calls) >= 5

\* C5: every key of the spline list was evaluated for exactly one build (one
\* evaluation per knot of its spline), however often its pair was requested.
C5_BuiltAtMostOncePerKey ==
  /\ DOMAIN nEvaluate = DOMAIN splineList
  /\ \A k \in DOMAIN splineList : nEvaluate[k] = splineList[k].nknots

C5_Witness ==
  /\ \E i, j \in 1..Len(calls) :
        i < j /\ calls[i][1] = "CreateSplines" /\ calls[i] = calls[j]
  /\ \A k \in DOMAIN splineList : nEvaluate[k] = splineList[k].nknots

\* C6: every spline has at least 30 knots, also when -n asks for fewer, and
\* without -n it has 15 knots per decade of its energy range or 30 if that
\* is more.
C6_KnotFloor ==
  \A k \in DOMAIN splineList :
    LET s == splineList[k]
    IN  /\ s.nknots >= KnotFloor
        /\ gOptNKnots <= 0 =>
             s.nknots = Max(KnotsPerDecade * Decades(SplineEmin, s.emax), KnotFloor)

C6_Witness ==
  /\ gOptNKnots = 5
  /\ \E k \in DOMAIN splineList : splineList[k].nknots = KnotFloor

\* C11: the geometry flag is false exactly when -f is not found and the
\* command-line flag is false exactly when -t is not found, so a command line
\* with -p and with neither -t nor -f ends GetCommandLineArgs with exit status
\* 1 and the one diagnostic "No geom file or cmd line target list was
\* specified".
C11_NeitherSourceExitsOne ==
  (pc # "start" /\ ~ArgNotFound(argv.p)) =>
    /\ TgtGeomFlag(argv.t, argv.f) = ~ArgNotFound(argv.f)
    /\ TgtCmdFlag(argv.t, argv.f) = ~ArgNotFound(argv.t)
    /\ (ArgNotFound(argv.t) /\ ArgNotFound(argv.f)) =>
         /\ pc = "exit"
         /\ exitStatus = 1
         /\ fatal = <<"No geom file or cmd line target list was specified - Exiting">>

\* main has called GetNeutrinoCodes and GetTargetCodes
CodesRead == pc \notin {"start", "codes"} /\ exitStatus # 1

C7_ScopedThenGlobal ==
  nConfigure > 0 =>
    /\ "Ma" \in DOMAIN fConfig.dbl =>
         (lastLoad # "param-missing" /\ fMa = fConfig.dbl["Ma"])
    /\ ("Ma" \in DOMAIN fConfig.dbl /\ "beta" \in DOMAIN fConfig.dbl) =>
         (lastLoad # "param-missing" /\ fBeta = fConfig.dbl["beta"])
    /\ lastLoad = "param-missing" =>
         \/ ("Ma" \notin DOMAIN fConfig.dbl /\ "DFR-Ma" \notin DOMAIN gc.dbl)
         \/ ("beta" \notin DOMAIN fConfig.dbl /\ "DFR-Beta" \notin DOMAIN gc.dbl)

\* C8 as claimed: once the instance is constructed its integrator has been
\* resolved, and it is resolved exactly once whatever calls follow.
C8_ResolvedOnceAtConstruction ==
  algState # "unborn" => nSubAlg = 1

\* C8 as amended: construction resolves nothing; every Configure call whose Ma
\* and beta lookups succeed resolves "XSec-Integrator" exactly once, so the
\* number of resolutions is the number of such Configure calls; Integral
\* never resolves.
C8_ResolvedPerConfigure ==
  /\ nSubAlg = nConfigure - (IF lastLoad = "param-missing" THEN 1 ELSE 0)
  /\ (algState # "unborn" /\ nConfigure = 0) => fXSecIntegrator = "wild"
  /\ lastIntegral = "integrated" => nSubAlg >= 1

C8_Witness ==
  /\ nConfigure = 2
  /\ nSubAlg = 2
  /\ nIntegral >= 1
  /\ lastIntegral = "integrated"

\* C14: in every state in which Integral can be called, fXSecIntegrator
\* holds a resolved XSecIntegratorI sub-instance (not an unassigned and not a
\* null pointer), and no Integral call went through an unassigned or null
\* integrator.
C14_IntegratorSetWhenIntegralCallable ==
  /\ algState = "ready" => fXSecIntegrator \in IntegratorAlgs
  /\ lastIntegral \in {"none", "integrated"}

(***************************************************************************)
(* Properties of ReinDFRPXSec::XSec (specification SpecXSec).              *)
(***************************************************************************)
CannotHandle(ia) == (~ia.skipProcessChk /\ ~ia.diffractive) \/ ~ia.validKinematics

\* C9 as claimed: an XSec call for an interaction the algorithm cannot handle
\* ends in an error reported to the caller, not in a returned value.
C9_FailureIsReported ==
  (lastXSec.called /\ CannotHandle(lastXSec.ia))
    => lastXSec.result.outcome # "returned"

\* C9 as amended: XSec reports no error; for an interaction it cannot handle
\* it returns the value 0 without evaluating the formula, the value it also
\* returns for an interaction it can handle whose cross section is 0 (y = 1).
C9_InvalidReturnsZero ==
  lastXSec.called =>
    /\ lastXSec.result.outcome = "returned"
    /\ CannotHandle(lastXSec.ia) =>
         (lastXSec.result.value = 0 /\ ~lastXSec.result.evaluated)
    /\ (~CannotHandle(lastXSec.ia) /\ lastXSec.ia.y2 = 2) =>
         (lastXSec.result.value = 0 /\ lastXSec.result.evaluated)

C9_Witness ==
  /\ lastXSec.called
  /\ ~lastXSec.ia.skipProcessChk /\ ~lastXSec.ia.diffractive
  /\ lastXSec.ia.validKinematics /\ lastXSec.ia.y2 = 1 /\ lastXSec.ia.nNucl = 26
  /\ lastXSec.result.value = 0

\* C13: for the interaction of the last XSec call, ValidProcess answered
\* true exactly when the process is diffractive or the interaction carries
\* the skip-process-check bit (with the bit, true for a non-diffractive
\* process too); when it answered false, XSec returned 0 and did not
\* evaluate the formula.
C13_ValidProcessIffDiffractiveOrSkip ==
  lastXSec.called =>
    /\ lastXSec.validProcess
         <=> (lastXSec.ia.diffractive \/ lastXSec.ia.skipProcessChk)
    /\ (~lastXSec.ia.diffractive /\ ~lastXSec.ia.skipProcessChk) =>
         /\ ~lastXSec.validProcess
         /\ lastXSec.result.outcome = "returned"
         /\ lastXSec.result.value = 0
         /\ ~lastXSec.result.evaluated
    /\ (lastXSec.validProcess /\ lastXSec.ia.validKinematics) =>
         lastXSec.result.evaluated

C13_Witness ==
  /\ lastXSec.called
  /\ lastXSec.ia.skipProcessChk /\ ~lastXSec.ia.diffractive
  /\ lastXSec.validProcess
  /\ lastXSec.result.evaluated
  /\ lastXSec.result.value > 0

(***************************************************************************)
(* Properties of sub-instance resolution (specification SpecReg).          *)
(***************************************************************************)
StackKeys == {resolveStack[i].key : i \in 1..Len(resolveStack)}

\* keys reachable from key k in one or more sub-instance steps
RECURSIVE ReachWithin(_, _)
ReachWithin(S, n) ==
  IF n = 0 THEN S
  ELSE ReachWithin(S \cup UNION {depGraph[k] : k \in S}, n - 1)
Below(k) == ReachWithin(depGraph[k], NumAlgKeys)

\* the configuration has a cycle among the keys the root needs
CyclicFromRoot == \E k \in {RootKey} \cup Below(RootKey) : k \in Below(k)

\* C10: no key is on the resolve chain twice, the marked keys are the keys on
\* the chain, the request ends after a bounded number of steps, in
\* CyclicDependency exactly when the configuration of the root is cyclic
\* (self-reference included) and with the root cached otherwise.
C10_CyclesRejected ==
  regStatus # "idle" =>
    /\ Cardinality(StackKeys) = Len(resolveStack)
    /\ inProgress = StackKeys
    /\ regSteps <= 1 + NumAlgKeys * (MaxSubAlgs + 2)
    /\ regStatus = "resolving" => ENABLED NextReg
    /\ regStatus = "CyclicDependency" => CyclicFromRoot
    /\ regStatus = "done" => (~CyclicFromRoot /\ RootKey \in instanceCache)

C10_Witness ==
  /\ regStatus = "CyclicDependency"
  /\ depGraph[1] = {2}
  /\ depGraph[2] = {1}

====
